---- MODULE Spec2Model ----
(***************************************************************************)
(* Checkout wizard of portugal-nomad-price-wizard: the pricing engine      *)
(* (calculateTotal, discountRules), the three-step flow (handleNextStep,   *)
(* the Back button) and the simulated payment (PaymentIntegration's timer  *)
(* followed by App.handlePayment's awaited delay).                         *)
(*                                                                         *)
(* Strings are sequences of one-character strings, so that length, case    *)
(* conversion and format checks are computed rather than assumed.          *)
(* Discount fractions 0.15, 0.10, 0.05 are whole percents 15, 10, 5.       *)
(***************************************************************************)
EXTENDS Integers, Sequences, FiniteSets, TLC

VARIABLES
    services,         \* App state: Service[] (id, price, selected)
    formData,         \* App state: name, email, phone, promoCode
    formErrors,       \* App state: field -> message
    termsAccepted,    \* App state
    showContactForm,  \* App state
    isProcessing,     \* App state
    currentStep,      \* App state: selection | contact | payment
    selectedMethod,   \* PaymentIntegration state of the mounted instance
    showDetails,      \* PaymentIntegration state of the mounted instance
    timers,           \* pending setTimeout callbacks, in creation order
    toasts,           \* addToast calls made by the latest step
    calculation       \* const calculation = calculateTotal() of the latest render

vars == <<services, formData, formErrors, termsAccepted, showContactForm,
          isProcessing, currentStep, selectedMethod, showDetails, timers,
          toasts, calculation>>

-----------------------------------------------------------------------------
(* Bounds of the model *)

\* number of payments that may be pending at once
MaxPending == 2

-----------------------------------------------------------------------------
(* Strings *)

EmptyStr == <<>>

LowerLetters == <<"a","b","c","d","e","f","g","h","i","j","k","l","m",
                  "n","o","p","q","r","s","t","u","v","w","x","y","z">>
UpperLetters == <<"A","B","C","D","E","F","G","H","I","J","K","L","M",
                  "N","O","P","Q","R","S","T","U","V","W","X","Y","Z">>
Digits == {"0","1","2","3","4","5","6","7","8","9"}

\* String.prototype.toUpperCase on one character
UpperChar(c) ==
    IF \E i \in 1..Len(LowerLetters) : LowerLetters[i] = c
    THEN UpperLetters[CHOOSE i \in 1..Len(LowerLetters) : LowerLetters[i] = c]
    ELSE c

toUpperCase(s) == [i \in 1..Len(s) |-> UpperChar(s[i])]

PROMO_LITERAL == <<"D","I","G","I","T","A","L","2","0","2","4">>

-----------------------------------------------------------------------------
(* Catalog *)

InitialServices ==
    << [id |-> "1", price |-> 100, selected |-> FALSE, category |-> "essential"],
       [id |-> "2", price |-> 300, selected |-> FALSE, category |-> "essential"],
       [id |-> "3", price |-> 300, selected |-> FALSE, category |-> "additional"],
       [id |-> "4", price |-> 400, selected |-> FALSE, category |-> "premium"] >>

ServiceIds == {InitialServices[i].id : i \in 1..Len(InitialServices)}

InitialFormData ==
    [name |-> EmptyStr, email |-> EmptyStr, phone |-> EmptyStr, promoCode |-> EmptyStr]

\* mutant: the service is selected, not toggled
toggleService_select(svcs, id) ==
    [i \in 1..Len(svcs) |->
        IF svcs[i].id = id THEN [svcs[i] EXCEPT !.selected = TRUE] ELSE svcs[i]]

\* prev.map(service => service.id === id ? {...service, selected: !service.selected} : service)
toggleService(svcs, id) ==
    [i \in 1..Len(svcs) |->
        IF svcs[i].id = id
        THEN [svcs[i] EXCEPT !.selected = ~svcs[i].selected]
        ELSE svcs[i]]

\* mutant: the reset leaves the selection as it is
clearSelection_keep(svcs) == svcs

\* prev.map(s => ({...s, selected: false}))
clearSelection(svcs) ==
    [i \in 1..Len(svcs) |-> [svcs[i] EXCEPT !.selected = FALSE]]

-----------------------------------------------------------------------------
(* Pricing engine *)

\* mutant: no filter
filterSelected_all(svcs) == svcs

\* services.filter(s => s.selected)
filterSelected(svcs) == SelectSeq(svcs, LAMBDA s : s.selected)

\* selectedServices.reduce((sum, service) => sum + service.price, 0)
RECURSIVE sumPrices(_)
sumPrices(sel) ==
    IF sel = <<>> THEN 0 ELSE sel[1].price + sumPrices(Tail(sel))

\* services.every(s => s.selected)
bulkCondition(svcs, fd) == \A i \in 1..Len(svcs) : svcs[i].selected

\* mutant: the comparison without toUpperCase()
promoCondition_exact(svcs, fd) == fd.promoCode = PROMO_LITERAL

\* formData?.promoCode.toUpperCase() === 'DIGITAL2024'
promoCondition(svcs, fd) == toUpperCase(fd.promoCode) = PROMO_LITERAL

\* mutant: >= 1 for >= 2
firstTimeCondition_one(svcs, fd) == Len(filterSelected(svcs)) >= 1

\* services.filter(s => s.selected).length >= 2
firstTimeCondition(svcs, fd) == Len(filterSelected(svcs)) >= 2

\* descriptions are the English renderings of the Russian texts
discountRules ==
    << [type |-> "bulk",       value |-> 15, description |-> "15% for ordering all services"],
       [type |-> "promo",      value |-> 10, description |-> "promo code for 10%"],
       [type |-> "first_time", value |-> 5,  description |-> "5% for new clients"] >>

\* rule.condition(services, formData)
ruleCondition(rule, svcs, fd) ==
    CASE rule.type = "bulk"       -> bulkCondition(svcs, fd)
      [] rule.type = "promo"      -> promoCondition(svcs, fd)
      [] rule.type = "first_time" -> firstTimeCondition(svcs, fd)
      [] OTHER                    -> FALSE

\* mutant: discounts add up
Max_sum(a, b) == a + b

\* Math.max(totalDiscount, rule.value)
Max(a, b) == IF a >= b THEN a ELSE b

\* mutant: only a rule that raises the discount is listed
applyRule_winning(acc, rule, svcs, fd) ==
    IF ruleCondition(rule, svcs, fd) /\ rule.value > acc.totalDiscount
    THEN [totalDiscount    |-> rule.value,
          appliedDiscounts |-> Append(acc.appliedDiscounts, rule.description)]
    ELSE acc

\* one pass of the forEach body: totalDiscount = Math.max(totalDiscount, rule.value);
\* appliedDiscounts.push(rule.description)
applyRule(acc, rule, svcs, fd) ==
    IF ruleCondition(rule, svcs, fd)
    THEN [totalDiscount    |-> Max(acc.totalDiscount, rule.value),
          appliedDiscounts |-> Append(acc.appliedDiscounts, rule.description)]
    ELSE acc

\* discountRules.forEach(rule => ...), from rule i on
RECURSIVE applyRules(_, _, _, _)
applyRules(i, acc, svcs, fd) ==
    IF i > Len(discountRules) THEN acc
    ELSE applyRules(i + 1, applyRule(acc, discountRules[i], svcs, fd), svcs, fd)

\* mutant: the discount amount is added to the subtotal
calculateTotal_added(svcs, fd) ==
    LET selectedServices == filterSelected(svcs)
        subtotal         == sumPrices(selectedServices)
        applied          == applyRules(1, [totalDiscount |-> 0, appliedDiscounts |-> <<>>],
                                       svcs, fd)
        discountAmount   == (subtotal * applied.totalDiscount) \div 100
        total            == subtotal + discountAmount
    IN  [subtotal         |-> subtotal,
         discount         |-> applied.totalDiscount,
         discountAmount   |-> discountAmount,
         total            |-> total,
         appliedDiscounts |-> applied.appliedDiscounts,
         selectedServices |-> selectedServices]

\* subtotal * totalDiscount is a whole number for every selection (prices are
\* multiples of 100, discounts whole percents), in doubles as in integers
calculateTotal(svcs, fd) ==
    LET selectedServices == filterSelected(svcs)
        subtotal         == sumPrices(selectedServices)
        applied          == applyRules(1, [totalDiscount |-> 0, appliedDiscounts |-> <<>>],
                                       svcs, fd)
        discountAmount   == (subtotal * applied.totalDiscount) \div 100
        total            == subtotal - discountAmount
    IN  [subtotal         |-> subtotal,
         discount         |-> applied.totalDiscount,
         discountAmount   |-> discountAmount,
         total            |-> total,
         appliedDiscounts |-> applied.appliedDiscounts,
         selectedServices |-> selectedServices]

-----------------------------------------------------------------------------
(* Contact validation *)

Fields == <<"name", "email", "phone">>

\* const validationRules = { name: {...}, email: {...}, phone: {...} }
validationRules ==
    [name  |-> [required |-> TRUE, minLength |-> 2, email |-> FALSE, phone |-> FALSE],
     email |-> [required |-> TRUE, minLength |-> 0, email |-> TRUE,  phone |-> FALSE],
     phone |-> [required |-> TRUE, minLength |-> 0, email |-> FALSE, phone |-> TRUE]]

\* a local part, "@", a domain with a dot inside it, no second "@", no blank
isEmail(s) ==
    /\ \A i \in 1..Len(s) : s[i] # " "
    /\ Cardinality({i \in 1..Len(s) : s[i] = "@"}) = 1
    /\ \E i \in 2..Len(s) : \E j \in (i + 2)..(Len(s) - 1) : s[i] = "@" /\ s[j] = "."

\* an optional leading "+", then digits only, at least one
isPhone(s) ==
    LET body == IF s # <<>> /\ s[1] = "+" THEN Tail(s) ELSE s
    IN  body # <<>> /\ \A i \in 1..Len(body) : body[i] \in Digits

\* the first rule a field's value breaks, "" when it breaks none
fieldError(value, rule) ==
    IF rule.required /\ Len(value) = 0 THEN "required"
    ELSE IF Len(value) < rule.minLength THEN "minLength"
    ELSE IF rule.email /\ ~isEmail(value) THEN "email"
    ELSE IF rule.phone /\ ~isPhone(value) THEN "phone"
    ELSE ""

\* useValidation().validateForm(formData, validationRules): the errors, in field order
RECURSIVE validateFrom(_, _, _)
validateFrom(i, fd, rules) ==
    IF i > Len(Fields) THEN <<>>
    ELSE LET f == Fields[i]
             m == fieldError(fd[f], rules[f])
         IN  (IF m = "" THEN <<>> ELSE <<[field |-> f, message |-> m]>>)
             \o validateFrom(i + 1, fd, rules)

validateForm(fd, rules) == validateFrom(1, fd, rules)

NoErrors == [f \in {} |-> ""]

\* errors.forEach(error => { errorMap[error.field] = error.message })
RECURSIVE errorMapOf(_, _)
errorMapOf(errors, map) ==
    IF errors = <<>> THEN map
    ELSE errorMapOf(Tail(errors), (errors[1].field :> errors[1].message) @@ map)

\* mutant: the result of the validation is ignored
validationPassed_always(errors) == TRUE

\* return errors.length === 0
validationPassed(errors) == Len(errors) = 0

-----------------------------------------------------------------------------
(* Toasts and timers *)

\* mutant: the severity passed to addToast is dropped
Toast_plain(message, arg, severity) ==
    [message |-> message, arg |-> arg, severity |-> "success"]

\* addToast(message, severity); arg: the ${method} of the payment message
Toast(message, arg, severity) == [message |-> message, arg |-> arg, severity |-> severity]

PaymentMethodIds == {"rub", "eur", "crypto"}

\* setTimeout(..., 2000) in PaymentIntegration.handlePayment
SimulatorDelayMs == 2000

\* setTimeout(resolve, 2000) awaited by App.handlePayment
ApiDelayMs == 2000

\* a pending setTimeout callback; mounted: the PaymentIntegration instance that
\* set it is still mounted. (App.handlePayment never reads its amount parameter,
\* so the callbacks carry the method only.)
Timer(kind, method, mounted) == [kind |-> kind, method |-> method, mounted |-> mounted]

RemoveAt(seq, i) == SubSeq(seq, 1, i - 1) \o SubSeq(seq, i + 1, Len(seq))

\* the timer the event loop runs next. Both delays are equal, so deadlines are
\* in creation order and the oldest pending timer is the first to fire; user
\* events take no time, so any number of them fits before it does.
IsNextDue(i) == SimulatorDelayMs = ApiDelayMs /\ i = 1

\* PaymentIntegration unmounts: callbacks of that instance set state of no instance
Unmounted(ts) == [i \in 1..Len(ts) |-> [ts[i] EXCEPT !.mounted = FALSE]]

\* every step ends with a render of App: const calculation = calculateTotal()
Render == calculation' = calculateTotal(services', formData')

-----------------------------------------------------------------------------
(* User inputs *)

\* what the user types into each field, clicks and toggles in the flow
NameInputs   == { <<"J">>, <<"J","o">> }
EmailInputs  == { <<"a","@","b",".","c","o","m">> }
PhoneInputs  == { <<"+","1","2","3","4","5","6","7","8","9","0">> }
PromoInputs  == { <<"d","i","g","i","t","a","l","2","0","2","4">> }
ToggleInputs == {"1", "4"}
MethodInputs == {"rub", "crypto"}

FieldInputs(field) ==
    CASE field = "name"      -> NameInputs
      [] field = "email"     -> EmailInputs
      [] field = "phone"     -> PhoneInputs
      [] field = "promoCode" -> PromoInputs

-----------------------------------------------------------------------------
(* State machine *)

Init ==
    /\ services = InitialServices
    /\ formData = InitialFormData
    /\ formErrors = NoErrors
    /\ termsAccepted = FALSE
    /\ showContactForm = FALSE
    /\ isProcessing = FALSE
    /\ currentStep = "selection"
    /\ selectedMethod = ""
    /\ showDetails = FALSE
    /\ timers = <<>>
    /\ toasts = <<>>
    /\ calculation = calculateTotal(InitialServices, InitialFormData)

\* mutant: the service cards are rendered in every step
ToggleService_anyStep(id) ==
    /\ services' = toggleService(services, id)
    /\ toasts' = <<>>
    /\ UNCHANGED <<formData, formErrors, termsAccepted, showContactForm, isProcessing,
                   currentStep, selectedMethod, showDetails, timers>>
    /\ Render

\* ServiceCard's checkbox, rendered in the selection step: onToggle(service.id)
ToggleService(id) ==
    /\ currentStep = "selection"
    /\ services' = toggleService(services, id)
    /\ toasts' = <<>>
    /\ UNCHANGED <<formData, formErrors, termsAccepted, showContactForm, isProcessing,
                   currentStep, selectedMethod, showDetails, timers>>
    /\ Render

\* a FormField's onChange, rendered in the contact step
SetFormField(field, value) ==
    /\ currentStep = "contact"
    /\ formData' = [formData EXCEPT ![field] = value]
    /\ toasts' = <<>>
    /\ UNCHANGED <<services, formErrors, termsAccepted, showContactForm, isProcessing,
                   currentStep, selectedMethod, showDetails, timers>>
    /\ Render

\* the terms checkbox, rendered in the contact step: setTermsAccepted(e.target.checked)
SetTermsAccepted ==
    /\ currentStep = "contact"
    /\ termsAccepted' = ~termsAccepted
    /\ toasts' = <<>>
    /\ UNCHANGED <<services, formData, formErrors, showContactForm, isProcessing,
                   currentStep, selectedMethod, showDetails, timers>>
    /\ Render

\* mutant: the check for an empty selection is missing
selectionIsEmpty_never(calc) == FALSE

\* if (calculation.selectedServices.length === 0)
selectionIsEmpty(calc) == Len(calc.selectedServices) = 0

\* setCurrentStep('contact') / setCurrentStep('payment')
stepAfter(step) == IF step = "selection" THEN "contact" ELSE "payment"

\* App.handleNextStep
handleNextStep ==
    LET calc == calculateTotal(services, formData)
    IN  /\ IF selectionIsEmpty(calc)
           THEN /\ toasts' = <<Toast("select at least one service", "", "warning")>>
                /\ UNCHANGED <<currentStep, showContactForm, formErrors>>
           ELSE IF currentStep = "selection"
           THEN /\ currentStep' = stepAfter(currentStep)
                /\ showContactForm' = TRUE
                /\ toasts' = <<>>
                /\ UNCHANGED formErrors
           ELSE IF currentStep = "contact"
           THEN LET errors == validateForm(formData, validationRules)
                IN  /\ formErrors' = errorMapOf(errors, NoErrors)
                    /\ IF validationPassed(errors)
                       THEN /\ currentStep' = stepAfter(currentStep)
                            /\ toasts' = <<Toast("data saved", "", "success")>>
                       ELSE /\ toasts' = <<Toast("fix the errors in the form", "", "error")>>
                            /\ UNCHANGED currentStep
                    /\ UNCHANGED showContactForm
           ELSE /\ toasts' = <<>>
                /\ UNCHANGED <<currentStep, showContactForm, formErrors>>
        /\ UNCHANGED <<services, formData, termsAccepted, isProcessing,
                       selectedMethod, showDetails, timers>>
        /\ Render

\* the advance button: rendered unless the step is payment, disabled with nothing selected
ClickNext ==
    /\ currentStep # "payment"
    /\ Len(calculation.selectedServices) # 0
    /\ handleNextStep

\* mutant: Back always returns to the selection step
backStep_toSelection(prev) == "selection"

\* prev => prev === 'payment' ? 'contact' : 'selection'
backStep(prev) == IF prev = "payment" THEN "contact" ELSE "selection"

\* the Back button, rendered unless the step is selection
ClickBack ==
    /\ currentStep # "selection"
    /\ currentStep' = backStep(currentStep)
    /\ IF currentStep = "payment" /\ currentStep' # "payment"
       THEN selectedMethod' = "" /\ showDetails' = FALSE /\ timers' = Unmounted(timers)
       ELSE UNCHANGED <<selectedMethod, showDetails, timers>>
    /\ toasts' = <<>>
    /\ UNCHANGED <<services, formData, formErrors, termsAccepted, showContactForm,
                   isProcessing>>
    /\ Render

\* PaymentIntegration.handlePayment(methodId): a method button, rendered in the
\* payment step and disabled while isProcessing
ClickPaymentMethod(methodId) ==
    /\ currentStep = "payment"
    /\ ~isProcessing
    /\ Len(timers) < MaxPending
    /\ selectedMethod' = methodId
    /\ showDetails' = TRUE
    /\ timers' = Append(timers, Timer("simulator", methodId, TRUE))
    /\ toasts' = <<>>
    /\ UNCHANGED <<services, formData, formErrors, termsAccepted, showContactForm,
                   isProcessing, currentStep>>
    /\ Render

\* PaymentIntegration's timeout callback: onPayment(methodId, total) runs
\* App.handlePayment up to its await, then setShowDetails(false), setSelectedMethod('')
SimulatorTimeout ==
    \E i \in 1..Len(timers) :
        /\ IsNextDue(i)
        /\ timers[i].kind = "simulator"
        /\ isProcessing' = TRUE
        /\ timers' = Append(RemoveAt(timers, i),
                            Timer("api", timers[i].method, FALSE))
        /\ IF timers[i].mounted
           THEN showDetails' = FALSE /\ selectedMethod' = ""
           ELSE UNCHANGED <<showDetails, selectedMethod>>
        /\ toasts' = <<>>
        /\ UNCHANGED <<services, formData, formErrors, termsAccepted, showContactForm,
                       currentStep>>
        /\ Render

\* mutant: the simulated request fails
awaitOutcome_rejected == "rejected"

\* await new Promise(resolve => setTimeout(resolve, 2000)): the executor calls
\* resolve alone, so the promise is fulfilled when its timer fires
awaitOutcome == "resolved"

\* App.handlePayment after its await. try: the success toast and the reset;
\* catch: the error toast; finally: setIsProcessing(false)
PaymentCompletes ==
    \E i \in 1..Len(timers) :
        /\ IsNextDue(i)
        /\ timers[i].kind = "api"
        /\ IF awaitOutcome = "resolved"
           THEN /\ toasts' = <<Toast("payment succeeded via", timers[i].method, "success")>>
                /\ services' = clearSelection(services)
                /\ formData' = InitialFormData
                /\ currentStep' = "selection"
                /\ showContactForm' = FALSE
                /\ termsAccepted' = FALSE
                /\ IF currentStep = "payment"
                   THEN /\ selectedMethod' = "" /\ showDetails' = FALSE
                        /\ timers' = Unmounted(RemoveAt(timers, i))
                   ELSE /\ UNCHANGED <<selectedMethod, showDetails>>
                        /\ timers' = RemoveAt(timers, i)
           ELSE /\ toasts' = <<Toast("payment processing error", "", "error")>>
                /\ timers' = RemoveAt(timers, i)
                /\ UNCHANGED <<services, formData, currentStep, showContactForm,
                               termsAccepted, selectedMethod, showDetails>>
        /\ isProcessing' = FALSE
        /\ UNCHANGED formErrors
        /\ Render

Next ==
    \/ \E id \in ToggleInputs : ToggleService(id)
    \/ \E field \in {"name", "email", "phone", "promoCode"} :
          \E value \in FieldInputs(field) : SetFormField(field, value)
    \/ SetTermsAccepted
    \/ ClickNext
    \/ ClickBack
    \/ \E methodId \in MethodInputs : ClickPaymentMethod(methodId)
    \/ SimulatorTimeout
    \/ PaymentCompletes

Spec == Init /\ [][Next]_vars

\* the event loop runs every due timer callback
FairSpec == Spec /\ WF_vars(SimulatorTimeout) /\ WF_vars(PaymentCompletes)

-----------------------------------------------------------------------------
(* The pricing engine on its own: every selection and a range of promo codes *)

\* every selection of the catalog
AllSelections ==
    { [i \in 1..Len(InitialServices) |-> [InitialServices[i] EXCEPT !.selected = (i \in S)]] :
        S \in SUBSET (1..Len(InitialServices)) }

\* promo codes typed in the contact step: the literal in several cases, near misses
PromoCases ==
    { EmptyStr,
      <<"d","i","g","i","t","a","l","2","0","2","4">>,
      <<"D","I","G","I","T","A","L","2","0","2","4">>,
      <<"D","i","g","i","t","a","l","2","0","2","4">>,
      <<"d","I","g","I","t","A","l","2","0","2","4">>,
      <<"d","i","g","i","t","a","l","2","0","2","5">>,
      <<"d","i","g","i","t","a","l">>,
      <<"d","i","g","i","t","a","l","2","0","2","4"," ">>,
      <<"S","A","V","E">> }

\* the selection step with any selection, and any promo code left in the form by
\* an earlier visit of the contact step
PricingInit ==
    /\ services \in AllSelections
    /\ \E p \in PromoCases :
          /\ formData = [InitialFormData EXCEPT !.promoCode = p]
          /\ showContactForm = (p # EmptyStr)
    /\ formErrors = NoErrors
    /\ termsAccepted = FALSE
    /\ isProcessing = FALSE
    /\ currentStep = "selection"
    /\ selectedMethod = ""
    /\ showDetails = FALSE
    /\ timers = <<>>
    /\ toasts = <<>>
    /\ calculation = calculateTotal(services, formData)

PricingNext == \E id \in ServiceIds : ToggleService(id)

PricingSpec == PricingInit /\ [][PricingNext]_vars

-----------------------------------------------------------------------------
(* handleNextStep as a function of the state it is called in *)

HandlerNames  == { EmptyStr, <<"J">>, <<"J","o">> }
HandlerEmails == { EmptyStr, <<"a","@","b">>, <<"a","@","b",".","c","o","m">> }
HandlerPhones == { EmptyStr, <<"1","2","a","b">>, <<"+","1","2","3","4","5","6","7","8","9","0">> }
HandlerPromos == { EmptyStr, <<"d","i","g","i","t","a","l","2","0","2","4">> }

\* the errors a failed validation of the empty form left behind
StaleErrors == errorMapOf(validateForm(InitialFormData, validationRules), NoErrors)

\* the states of the selection and contact steps: in the contact step something
\* is selected, in the selection step anything may be, and the form holds what
\* earlier visits of the contact step left in it
HandlerInit ==
    /\ currentStep \in {"selection", "contact"}
    /\ services \in AllSelections
    /\ currentStep = "contact" => \E i \in 1..Len(services) : services[i].selected
    /\ formData \in [name : HandlerNames, email : HandlerEmails,
                     phone : HandlerPhones, promoCode : HandlerPromos]
    /\ formErrors \in {NoErrors, StaleErrors}
    /\ showContactForm = TRUE
    /\ termsAccepted = FALSE
    /\ isProcessing = FALSE
    /\ selectedMethod = ""
    /\ showDetails = FALSE
    /\ timers = <<>>
    /\ toasts = <<>>
    /\ calculation = calculateTotal(services, formData)

\* the handler called where its button is rendered, enabled or not
CallHandleNextStep ==
    /\ currentStep # "payment"
    /\ handleNextStep

HandlerNext == CallHandleNextStep

HandlerSpec == HandlerInit /\ [][HandlerNext]_vars

-----------------------------------------------------------------------------
(* Properties *)

IsSelected(id) == \E i \in 1..Len(services) : services[i].id = id /\ services[i].selected

SelectedIds == {id \in {"1", "2", "3", "4"} : IsSelected(id)}

NoServiceSelected == \A i \in 1..Len(services) : ~services[i].selected

PaymentToast(t) == t.message = "payment succeeded via" /\ t.severity = "success"

\* C1: the step in which a simulated payment completes ends with no service
\* selected, the four form fields empty, the terms not accepted and the step
\* selection, whatever the state it started in.
C1_PaymentResetsState ==
    [][PaymentCompletes =>
          /\ NoServiceSelected'
          /\ formData'.name = <<>> /\ formData'.email = <<>>
          /\ formData'.phone = <<>> /\ formData'.promoCode = <<>>
          /\ termsAccepted' = FALSE
          /\ currentStep' = "selection"]_vars

\* a payment has just completed and reset the state while another one is pending
C1_Witness ==
    /\ Len(toasts) = 1 /\ PaymentToast(toasts[1])
    /\ NoServiceSelected /\ formData.promoCode = <<>> /\ currentStep = "selection"
    /\ timers # <<>>

\* C2: at most one payment is pending, from the click on a payment method to the
\* end of App.handlePayment.
C2_SinglePendingPayment == Len(timers) <= 1

\* C3: a payment completes, and resets the state, only while the step is payment.
C3_CompletionOnlyInPayment == [][PaymentCompletes => currentStep = "payment"]_vars

\* C4: handleNextStep in the selection step: with nothing selected the step, the
\* services, the form data and the form errors stay as they are; with something
\* selected the step becomes contact.
C4_AdvanceFromSelection ==
    [][(currentStep = "selection" /\ CallHandleNextStep) =>
          IF SelectedIds = {}
          THEN UNCHANGED <<currentStep, services, formData, formErrors>>
          ELSE currentStep' = "contact"]_vars

\* the handler has just rejected an advance from an empty selection
C4_Witness ==
    /\ currentStep = "selection" /\ SelectedIds = {}
    /\ Len(toasts) = 1 /\ toasts[1].severity = "warning"
    /\ formData.name # <<>> /\ formErrors # NoErrors

FailingFields ==
    {f \in {"name", "email", "phone"} :
        \E k \in 1..Len(validateForm(formData, validationRules)) :
            validateForm(formData, validationRules)[k].field = f}

\* C5: advancing from contact moves to payment exactly when the validation of the
\* current form data returns no errors; otherwise the step stays contact and
\* formErrors holds one message for each failing field and for no other key. The
\* promo code is no key of formErrors.
C5_AdvanceFromContact ==
    [][(currentStep = "contact" /\ ClickNext) =>
          /\ (currentStep' = "payment") <=> (validateForm(formData, validationRules) = <<>>)
          /\ validateForm(formData, validationRules) # <<>> =>
                /\ currentStep' = "contact"
                /\ DOMAIN formErrors' = FailingFields
                /\ \A f \in FailingFields : formErrors'[f] # ""
          /\ "promoCode" \notin DOMAIN formErrors']_vars

\* a rejected advance from contact: the e-mail field alone fails, a promo code is set
C5_Witness ==
    /\ currentStep = "contact"
    /\ Len(toasts) = 1 /\ toasts[1].severity = "error"
    /\ DOMAIN formErrors = {"email"}
    /\ formData.promoCode # <<>>

\* C6: the step starts at selection and changes only by selection->contact and
\* contact->payment through the advance button, payment->contact and
\* contact->selection through Back, and to selection through a completing
\* payment; Back is not available in the selection step.
C6_StepTransitions ==
    /\ currentStep = "selection"
    /\ [][/\ \/ currentStep' = currentStep
             \/ currentStep = "selection" /\ currentStep' = "contact" /\ ClickNext
             \/ currentStep = "contact" /\ currentStep' = "payment" /\ ClickNext
             \/ currentStep = "payment" /\ currentStep' = "contact" /\ ClickBack
             \/ currentStep = "contact" /\ currentStep' = "selection" /\ ClickBack
             \/ currentStep' = "selection" /\ PaymentCompletes
          /\ ClickBack => currentStep # "selection"]_vars

\* the payment step has been reached and left again by Back with a payment pending
C6_Witness ==
    /\ currentStep = "contact"
    /\ timers # <<>>
    /\ validateForm(formData, validationRules) = <<>>

\* C7: the subtotal is the sum of the prices 100, 300, 300, 400 of the selected
\* services, and selectedServices holds exactly the selected services.
C7_SubtotalIsSumOfSelected ==
    /\ calculation.subtotal =
          (IF IsSelected("1") THEN 100 ELSE 0) + (IF IsSelected("2") THEN 300 ELSE 0)
        + (IF IsSelected("3") THEN 300 ELSE 0) + (IF IsSelected("4") THEN 400 ELSE 0)
    /\ {calculation.selectedServices[k].id : k \in 1..Len(calculation.selectedServices)}
          = SelectedIds
    /\ Len(calculation.selectedServices) = Cardinality(SelectedIds)

\* services 2 and 3 are selected: subtotal 600
C7_Witness ==
    /\ SelectedIds = {"2", "3"}
    /\ calculation.subtotal = 600

ApplicableValues ==
    {discountRules[i].value :
        i \in {j \in 1..Len(discountRules) : ruleCondition(discountRules[j], services, formData)}}

\* C8: the discount is the largest value among the applicable rules, 0 when none
\* applies; with all four services selected it is 15 percent.
C8_DiscountIsMaximum ==
    /\ calculation.discount \in ApplicableValues \cup {0}
    /\ \A v \in ApplicableValues : calculation.discount >= v
    /\ SelectedIds = {"1", "2", "3", "4"} => calculation.discount = 15

\* all four services and a matching promo code: three rules apply, the discount is 15
C8_Witness ==
    /\ SelectedIds = {"1", "2", "3", "4"}
    /\ ApplicableValues = {15, 10, 5}
    /\ calculation.discount = 15

PromoLower == <<"d","i","g","i","t","a","l","2","0","2","4">>
PromoUpper == <<"D","I","G","I","T","A","L","2","0","2","4">>

\* the code reads digital2024 with each letter in either case
IsPromoInAnyCase(code) ==
    /\ Len(code) = Len(PromoLower)
    /\ \A i \in 1..Len(code) : code[i] \in {PromoLower[i], PromoUpper[i]}

\* C9: with the promo code digital2024 in any letter case and two or three
\* services selected, the discount is 10 percent.
C9_PromoBeatsFirstTime ==
    (IsPromoInAnyCase(formData.promoCode) /\ Cardinality(SelectedIds) \in {2, 3})
        => calculation.discount = 10

\* a promo code in mixed case with three services selected
C9_Witness ==
    /\ IsPromoInAnyCase(formData.promoCode)
    /\ formData.promoCode # PromoUpper /\ formData.promoCode # PromoLower
    /\ Cardinality(SelectedIds) = 3
    /\ calculation.discount = 10

\* C10: with exactly one service selected and an empty promo code the discount is
\* 0 and the total is the price of that service.
C10_SingleServiceNoDiscount ==
    (Cardinality(SelectedIds) = 1 /\ formData.promoCode = <<>>) =>
        /\ calculation.discount = 0
        /\ \A i \in 1..Len(services) :
              services[i].selected => calculation.total = services[i].price

\* service 4 alone, no promo code: total 400
C10_Witness ==
    /\ SelectedIds = {"4"} /\ formData.promoCode = <<>>
    /\ calculation.total = 400

\* C11: discountAmount = subtotal x discount and total = subtotal - discountAmount
\* = subtotal x (1 - discount), with 0 <= total <= subtotal; discounts are the
\* whole percents 0, 5, 10, 15.
C11_TotalFormula ==
    /\ calculation.discount \in {0, 5, 10, 15}
    /\ calculation.discountAmount * 100 = calculation.subtotal * calculation.discount
    /\ calculation.total = calculation.subtotal - calculation.discountAmount
    /\ calculation.total * 100 = calculation.subtotal * (100 - calculation.discount)
    /\ 0 <= calculation.total /\ calculation.total <= calculation.subtotal

\* all four services: 1100 less 15 percent
C11_Witness ==
    /\ calculation.subtotal = 1100 /\ calculation.discount = 15
    /\ calculation.discountAmount = 165 /\ calculation.total = 935

\* the descriptions of the rules that apply, in rule order: bulk, promo, first_time
ExpectedDescriptions ==
    (IF SelectedIds = {"1", "2", "3", "4"} THEN <<"15% for ordering all services">> ELSE <<>>)
    \o (IF IsPromoInAnyCase(formData.promoCode) THEN <<"promo code for 10%">> ELSE <<>>)
    \o (IF Cardinality(SelectedIds) >= 2 THEN <<"5% for new clients">> ELSE <<>>)

\* C15: appliedDiscounts holds the description of every rule whose condition
\* holds, in rule order, and of no other rule; it may list several rules while the
\* discount is the largest value alone (all four services with a matching promo
\* code: three descriptions, discount 15 percent).
C15_AppliedDiscountsListAll ==
    /\ calculation.appliedDiscounts = ExpectedDescriptions
    /\ (SelectedIds = {"1", "2", "3", "4"} /\ IsPromoInAnyCase(formData.promoCode)) =>
          Len(calculation.appliedDiscounts) = 3 /\ calculation.discount = 15

\* three rules listed, one discount of 15 percent
C15_Witness ==
    /\ Len(calculation.appliedDiscounts) = 3
    /\ calculation.appliedDiscounts[2] = "promo code for 10%"
    /\ calculation.discount = 15

\* a toggle that selects a service not selected before
AddsService(id) == ~IsSelected(id) /\ ToggleService(id)

\* C20: selecting one additional service never lowers the total.
C20_TotalMonotone ==
    [][\A id \in {"1", "2", "3", "4"} :
          AddsService(id) => calculation'.total >= calculation.total]_vars

\* C20, amended: selecting one additional service never lowers the total, except
\* when service 1 (price 100) is added to services 2, 3 and 4 with no matching
\* promo code: the discount rises from 5 to 15 percent and the total falls from
\* 950 to 935.
C20_TotalMonotoneExceptBulk ==
    [][\A id \in {"1", "2", "3", "4"} :
          AddsService(id) =>
             IF id = "1" /\ SelectedIds = {"2", "3", "4"}
                /\ ~IsPromoInAnyCase(formData.promoCode)
             THEN calculation.total = 950 /\ calculation'.total = 935
             ELSE calculation'.total >= calculation.total]_vars

\* services 2, 3 and 4 without a promo code, one toggle away from the bulk discount
C20_Witness ==
    /\ SelectedIds = {"2", "3", "4"} /\ formData.promoCode = <<>>
    /\ calculation.total = 950

\* a payment through method m has just completed: success toast, reset, flag down
CompletedVia(m) ==
    /\ Len(toasts) = 1 /\ PaymentToast(toasts[1]) /\ toasts[1].arg = m
    /\ NoServiceSelected /\ formData = InitialFormData
    /\ currentStep = "selection"
    /\ ~isProcessing

\* C12: with the timers firing, a pending payment is always followed by a
\* completion (success toast, reset to selection, isProcessing false), wherever
\* the user navigates meanwhile; the payment that completes is the oldest
\* pending one, no pending payment leaves the queue in another way, and the error
\* toast of the catch branch never appears. So every click on a payment method
\* is followed by its own completion.
C12_PaymentEventuallyCompletes ==
    /\ (timers # <<>>) ~> (\E m \in {"rub", "eur", "crypto"} : CompletedVia(m))
    /\ [][/\ PaymentCompletes =>
                /\ toasts' = <<Toast("payment succeeded via", timers[1].method, "success")>>
                /\ timers' \in {Tail(timers), Unmounted(Tail(timers))}
          /\ Len(timers') < Len(timers) => PaymentCompletes
          /\ SimulatorTimeout =>
                /\ Len(timers') = Len(timers)
                /\ timers'[Len(timers')].method = timers[1].method]_vars
    /\ [](\A k \in 1..Len(toasts) : toasts[k].message # "payment processing error")

\* a crypto payment completed after the user went back to the contact step and
\* failed a validation there (formErrors is set, which the payment step never sees)
C12_Witness ==
    /\ CompletedVia("crypto")
    /\ formErrors # NoErrors

\* a call of handleNextStep that leaves the step where it was
RejectedAdvance == CallHandleNextStep /\ currentStep' = currentStep

\* C13: every rejected advance is surfaced by exactly one toast of severity warning.
C13_RejectionToastIsWarning ==
    [][RejectedAdvance => (Len(toasts') = 1 /\ toasts'[1].severity = "warning")]_vars

\* C13, amended: every rejected advance is surfaced by exactly one toast, of
\* severity warning when the selection is empty and of severity error when the
\* contact validation fails.
C13_RejectionToast ==
    [][RejectedAdvance =>
          /\ Len(toasts') = 1
          /\ toasts'[1].severity = (IF SelectedIds = {} THEN "warning" ELSE "error")]_vars

\* a failed contact validation, surfaced by one toast of severity error
C13_Witness ==
    /\ currentStep = "contact" /\ SelectedIds # {}
    /\ validateForm(formData, validationRules) # <<>>
    /\ Len(toasts) = 1 /\ toasts[1].severity = "error"
    /\ formErrors # NoErrors

\* C14: showContactForm is true exactly when the step is not selection.
C14_FlagMirrorsStep == showContactForm <=> (currentStep # "selection")

\* C17: in the contact and payment steps at least one service is selected and
\* the total is positive.
C17_SelectionKeptBeyondSelectionStep ==
    currentStep \in {"contact", "payment"} =>
        /\ SelectedIds # {}
        /\ calculation.total > 0

\* the user is back in the contact step, with a selection, while a payment that
\* will clear it is being processed
C17_Witness ==
    /\ currentStep = "contact" /\ SelectedIds = {"1", "4"}
    /\ isProcessing
    /\ \E i \in 1..Len(timers) : timers[i].kind = "api"

\* C18: in the payment step the form data is valid: a name of two characters or
\* more, an e-mail address and a phone number of valid format.
C18_PaymentStepHasValidForm ==
    currentStep = "payment" =>
        /\ Len(formData.name) >= 2
        /\ isEmail(formData.email)
        /\ isPhone(formData.phone)
        /\ validateForm(formData, validationRules) = <<>>

\* the payment step with a valid form, a promo code and a payment pending
C18_Witness ==
    /\ currentStep = "payment"
    /\ formData.name = <<"J", "o">> /\ formData.promoCode # <<>>
    /\ formErrors = NoErrors
    /\ timers # <<>>

\* an App.handlePayment call has started and not finished
PaymentRunning == \E i \in 1..Len(timers) : timers[i].kind = "api"

\* C19: isProcessing is true exactly while some App.handlePayment call is running.
C19_FlagTracksRunningPayments == isProcessing <=> PaymentRunning

\* t is svcs with the selected flag of the service id flipped and nothing else changed
FlipsExactly(svcs, id, t) ==
    /\ Len(t) = Len(svcs)
    /\ \A i \in 1..Len(svcs) :
          /\ t[i].id = svcs[i].id /\ t[i].price = svcs[i].price
          /\ t[i].category = svcs[i].category
          /\ t[i].selected = (IF svcs[i].id = id THEN ~svcs[i].selected ELSE svcs[i].selected)

\* C16: toggleService(id) flips the selected flag of the service id alone and
\* leaves the other services, the prices, the form data, the form errors and the
\* step as they are; toggling the same id twice restores the services; and the
\* ids and prices of the catalog never change.
C16_ToggleFrame ==
    /\ [](\A id \in {"1", "2", "3", "4"} :
             /\ FlipsExactly(services, id, toggleService(services, id))
             /\ toggleService(toggleService(services, id), id) = services)
    /\ [][\A id \in {"1", "2", "3", "4"} :
             ToggleService(id) =>
                /\ FlipsExactly(services, id, services')
                /\ UNCHANGED <<formData, formErrors, currentStep>>]_vars
    /\ []( /\ [i \in 1..Len(services) |-> services[i].id] = <<"1", "2", "3", "4">>
           /\ [i \in 1..Len(services) |-> services[i].price] = <<100, 300, 300, 400>> )

\* service 4 alone is selected, in the selection step, with the form data and the
\* form errors of an earlier visit of the contact step still in place
C16_Witness ==
    /\ currentStep = "selection" /\ SelectedIds = {"4"}
    /\ formData.name # <<>> /\ formErrors # NoErrors
    /\ toasts = <<>>

====
